---------------------------- MODULE Spec2Model ----------------------------
(***************************************************************************)
(* A model of the ilang type store (ilang/Type.hpp, src/Type.cpp and the   *)
(* older lib/Type.cpp).                                                    *)
(*                                                                         *)
(* A TypeHandle is a pointer: it is modelled as the address of the Type    *)
(* object.  The heap maps the address of every live Type object to its     *)
(* fields.  No object is ever freed, so every allocation returns an        *)
(* address that was never in use, and the model names an address after the *)
(* allocation that returned it: "obj1" is what the first make_unique or    *)
(* new of a Type returned, "obj2" what the second returned.  A name says   *)
(* nothing about where the object lies: which of two addresses is the      *)
(* lower one is the allocator's choice, and the source puts no constraint  *)
(* on it.  The code compares addresses in two places only, and the model   *)
(* leaves their order open in both:                                        *)
(*   - type_result sorts the storage by address.  The storage is kept as   *)
(*     the set of the handles that have been sorted, which the vector      *)
(*     holds in the order of their addresses whatever that order is, and   *)
(*     the list of the handles appended since.                             *)
(*   - getSumType and findSumType sort a member list by address.  The      *)
(*     variable addr holds the order of the addresses of the objects the   *)
(*     callers list as members, and every such order is an initial state.  *)
(*                                                                         *)
(* getSortedTypes sorts a copy of the storage by name with std::sort,      *)
(* which is a function of the vector it is given and leaves handles of     *)
(* equal names in an order that is not specified.  The variable byName     *)
(* holds what it returns on the store as it is: any vector sorted by name  *)
(* when the store has changed, the same vector while it has not.           *)
(*                                                                         *)
(* Strings are sequences of character codes (ASCII), so that concatenation *)
(* and std::to_string are computed as the code computes them and so that   *)
(* std::string's operator< is lexicographic order on the codes.            *)
(***************************************************************************)
EXTENDS Integers, Sequences, FiniteSets, TLC

VARIABLES
    build,      \* which translation unit is linked: "src" (src/Type.cpp) or "lib" (lib/Type.cpp)
    data,       \* the TypeData value the caller threads through the get* calls
    heap,       \* address -> Type object, for every Type object alive
    pc,         \* "open" while the process runs, "crashed" once a call has faulted
    last,       \* the last call made: its name, its arguments and what it returned
    partials,   \* the handles getPartialType has returned, in call order
    addr,       \* the ranks by address of the objects listed as members
    byName      \* what getSortedTypes returns on the current store, by str and by mangled

vars == <<build, data, heap, pc, last, partials, addr, byName>>

-----------------------------------------------------------------------------
(* Bounds and pointers *)

\* The number of Type objects that can be allocated after the constructor.
MaxNew == 2

\* The number of Type objects TypeData::TypeData() of src/Type.cpp creates.
NumRoots == 12

NullPtr == "nullptr"

\* A pointer value that is neither null nor the address of an object.
Indeterminate == "indeterminate"

\* The number of Type objects TypeData::TypeData() of lib/Type.cpp creates.
LibNumRoots == 7

\* The address the k-th allocation of a Type object returns.
Address(k) == "obj" \o ToString(k)

\* The addresses of the objects a process allocates: the constructor's
\* objects and MaxNew more.
Addr(b) ==
    {Address(k) : k \in 1..((IF b = "src" THEN NumRoots ELSE LibNumRoots) + MaxNew)}

\* The bit widths the callers pass (0: the family root).
Widths == {0, 32}

\* StringEncoding: the two enumerators, and "other" for a value that is none.
Encodings == {"ascii", "utf8", "other"}

\* std::optional<T>: <<>> is std::nullopt, <<v>> holds v.
Optional(S) == {<<>>} \cup {<<v>> : v \in S}

-----------------------------------------------------------------------------
(* Strings *)

Lit ==
    [ Infinity  |-> <<73,110,102,105,110,105,116,121>>,      qq  |-> <<63,63>>,
      Type      |-> <<84,121,112,101>>,                      tq  |-> <<116,63>>,
      Unit      |-> <<85,110,105,116>>,                      u0  |-> <<117,48>>,
      String    |-> <<83,116,114,105,110,103>>,              sq  |-> <<115,63>>,
      Number    |-> <<78,117,109,98,101,114>>,               wq  |-> <<119,63>>,
      Complex   |-> <<67,111,109,112,108,101,120>>,          cq  |-> <<99,63>>,
      Imaginary |-> <<73,109,97,103,105,110,97,114,121>>,    iq  |-> <<105,63>>,
      Real      |-> <<82,101,97,108>>,                       rq  |-> <<114,63>>,
      Rational  |-> <<82,97,116,105,111,110,97,108>>,        qq2 |-> <<113,63>>,
      Integer   |-> <<73,110,116,101,103,101,114>>,          zq  |-> <<122,63>>,
      Natural   |-> <<78,97,116,117,114,97,108>>,            nq  |-> <<110,63>>,
      Boolean   |-> <<66,111,111,108,101,97,110>>,           bq  |-> <<98,63>>,
      AsciiString |-> <<65,115,99,105,105,83,116,114,105,110,103>>, sa8 |-> <<115,97,56>>,
      Utf8String  |-> <<85,116,102,56,83,116,114,105,110,103>>,     su8 |-> <<115,117,56>>,
      Unique    |-> <<85,110,105,113,117,101>>,              underscore |-> <<95>>,
      bar       |-> <<32,124,32>>,                           star |-> <<32,42,32>>,
      u |-> <<117>>, p |-> <<112>>, n |-> <<110>>, z |-> <<122>>,
      q |-> <<113>>, r |-> <<114>>, i |-> <<105>>, c |-> <<99>>,
      s |-> <<115>>, w |-> <<119>>, f |-> <<102>> ]

\* std::to_string of an unsigned value: its decimal digits.
RECURSIVE to_string(_)
to_string(n) ==
    IF n < 10 THEN <<48 + n>> ELSE to_string(n \div 10) \o <<48 + (n % 10)>>

-----------------------------------------------------------------------------
(* Sequences of pointers *)

\* The orders the allocator can give the addresses of the objects S:
\* every one.  rank[t] is the rank of the address of t among them.
Ranks(S) ==
    {rank \in [S -> 1..Cardinality(S)] : \A t, o \in S : rank[t] = rank[o] => t = o}

RECURSIVE InsertSorted(_, _, _)
InsertSorted(x, s, rank) ==
    IF s = <<>> THEN <<x>>
    ELSE IF rank[x] <= rank[Head(s)] THEN <<x>> \o s
    ELSE <<Head(s)>> \o InsertSorted(x, Tail(s), rank)

\* std::sort of a vector of TypeHandle with operator<: ascending addresses,
\* rank giving the order of the addresses.
RECURSIVE SortPtrs(_, _)
SortPtrs(s, rank) ==
    IF s = <<>> THEN <<>> ELSE InsertSorted(Head(s), SortPtrs(Tail(s), rank), rank)

\* erase(std::unique(..), end): one element of every run of equal elements.
RECURSIVE Unique(_)
Unique(s) ==
    IF Len(s) < 2 THEN s
    ELSE IF s[1] = s[2] THEN Unique(Tail(s))
    ELSE <<s[1]>> \o Unique(Tail(s))

Range(s) == {s[k] : k \in DOMAIN s}

\* The vector TypeData::storage.  sorted is the set of the handles the last
\* std::sort of the vector has put in the order of their addresses: the
\* vector begins with them, lowest address first.  rest is what has been
\* appended since, in the order of the appends.
Storage(sorted, rest) == [sorted |-> sorted, rest |-> rest]

\* The handles the vector holds, and their number.
Elements(v) == v.sorted \cup Range(v.rest)

size(v) == Cardinality(v.sorted) + Len(v.rest)

emplace_back(v, a) == Storage(v.sorted, Append(v.rest, a))

\* std::sort(begin(storage), end(storage)): unique_ptr's operator< compares
\* the addresses, so the whole vector comes to be in their order.
sort(v) == Storage(Elements(v), <<>>)

\* std::map::find: the mapped handle, or NullPtr for end().
MapFind(cont, key) == IF key \in DOMAIN cont THEN cont[key] ELSE NullPtr

EmptyMap == [k \in {} |-> NullPtr]

-----------------------------------------------------------------------------
(* Type and TypeData *)

\* A Type as its default member initializers leave it.
NewType == [base |-> NullPtr, str |-> <<>>, mangled |-> <<>>, types |-> <<>>]

\* A TypeData before the body of its constructor runs: the containers are
\* empty.  The handle members have no initializer: the record has a field for
\* a handle member once a constructor has assigned it, and none before.
RawTypeData ==
    [ sizedBooleanTypes |-> EmptyMap, sizedNaturalTypes |-> EmptyMap,
      sizedIntegerTypes |-> EmptyMap, sizedRationalTypes |-> EmptyMap,
      sizedImaginaryTypes |-> EmptyMap, sizedRealTypes |-> EmptyMap,
      sizedComplexTypes |-> EmptyMap, encodedStringTypes |-> EmptyMap,
      functionTypes |-> EmptyMap, sumTypes |-> EmptyMap,
      productTypes |-> EmptyMap, partialTypes |-> <<>>,
      storage |-> Storage({}, <<>>) ]

\* What reading a handle member that no constructor assigned can give: the
\* member holds what its memory held before, each member on its own: null
\* (static storage, fresh or zeroed memory), a value that is no address, or
\* what an earlier frame left there, the address of any object alive now.
Unassigned(h) == {NullPtr, Indeterminate} \cup DOMAIN h

\* What reading the handle member f of the TypeData d can give.
Member(d, h, f) == IF f \in DOMAIN d THEN {d[f]} ELSE Unassigned(h)

\* The addresses the allocator gives the n objects of a constructor, in the
\* order the constructor allocates them: they are the first Type objects
\* allocated.
Allocations(n) == [k \in 1..n |-> Address(k)]

\* TypeData::TypeData() of src/Type.cpp, with the allocator's addresses at.
\* It assigns twelve handle members; partialType and functionType it leaves.
TypeDataCtor(at) ==
    LET node(str, mangled, base) ==
            [NewType EXCEPT !.base = base, !.str = str, !.mangled = mangled]
        infinityType  == at[1]
        typeType      == at[2]
        unitType      == at[3]
        stringType    == at[4]
        numberType    == at[5]
        complexType   == at[6]
        imaginaryType == at[7]
        realType      == at[8]
        rationalType  == at[9]
        integerType   == at[10]
        naturalType   == at[11]
        booleanType   == at[12]
    IN  [ data |->
            [ infinityType |-> infinityType, typeType |-> typeType,
              unitType |-> unitType, stringType |-> stringType,
              numberType |-> numberType, complexType |-> complexType,
              imaginaryType |-> imaginaryType, realType |-> realType,
              rationalType |-> rationalType, integerType |-> integerType,
              naturalType |-> naturalType, booleanType |-> booleanType ]
            @@ [RawTypeData EXCEPT !.storage = Storage({}, [k \in 1..NumRoots |-> at[k]])],
          heap |->
            (infinityType  :> node(Lit.Infinity, Lit.qq, infinityType)) @@
            (typeType      :> node(Lit.Type, Lit.tq, infinityType)) @@
            (unitType      :> node(Lit.Unit, Lit.u0, infinityType)) @@
            (stringType    :> node(Lit.String, Lit.sq, infinityType)) @@
            (numberType    :> node(Lit.Number, Lit.wq, infinityType)) @@
            (complexType   :> node(Lit.Complex, Lit.cq, numberType)) @@
            (imaginaryType :> node(Lit.Imaginary, Lit.iq, complexType)) @@
            (realType      :> node(Lit.Real, Lit.rq, complexType)) @@
            (rationalType  :> node(Lit.Rational, Lit.qq2, realType)) @@
            (integerType   :> node(Lit.Integer, Lit.zq, rationalType)) @@
            (naturalType   :> node(Lit.Natural, Lit.nq, integerType)) @@
            (booleanType   :> node(Lit.Boolean, Lit.bq, naturalType)) ]

-----------------------------------------------------------------------------
(* src/Type.cpp: the creators.  m is the machine state [data, heap] the     *)
(* function runs on, a the address its make_unique<Type>() returns; the     *)
(* result is the machine state after it and the value it returns.           *)

Result(d, h, t) == [data |-> d, heap |-> h, ret |-> t, fault |-> FALSE]

\* The call faults (an access outside a vector's elements) and returns nothing.
Fault(d, h) == [data |-> d, heap |-> h, ret |-> NullPtr, fault |-> TRUE]

createEncodedStringType(m, a, encoding) ==
    LET type == [NewType EXCEPT !.base = m.data.stringType]
    IN  CASE encoding = "ascii" ->
                Result([m.data EXCEPT !.storage = emplace_back(@, a)],
                       (a :> [type EXCEPT !.str = Lit.AsciiString, !.mangled = Lit.sa8]) @@ m.heap,
                       a)
          [] encoding = "utf8" ->
                Result([m.data EXCEPT !.storage = emplace_back(@, a)],
                       (a :> [type EXCEPT !.str = Lit.Utf8String, !.mangled = Lit.su8]) @@ m.heap,
                       a)
          [] OTHER -> Result(m.data, m.heap, NullPtr)

\* A slip of createSizedNumberType: the names are written into the object
\* base points to, and no object of its own is made for the sized type.
createSizedNumberType_intoBase(m, a, base, name, mangledName, numBits) ==
    IF numBits = 0 THEN Result(m.data, m.heap, base)
    ELSE LET bitsStr == to_string(numBits)
             type == [m.heap[base] EXCEPT !.str = name \o bitsStr,
                                          !.mangled = mangledName \o bitsStr]
         IN  Result([m.data EXCEPT !.storage = emplace_back(@, a)],
                    (a :> NewType) @@ (base :> type) @@ m.heap,
                    a)

createSizedNumberType(m, a, base, name, mangledName, numBits) ==
    IF numBits = 0 THEN Result(m.data, m.heap, base)
    ELSE LET bitsStr == to_string(numBits)
             type == [NewType EXCEPT !.base = base,
                                     !.str = name \o bitsStr,
                                     !.mangled = mangledName \o bitsStr]
         IN  Result([m.data EXCEPT !.storage = emplace_back(@, a)],
                    (a :> type) @@ m.heap,
                    a)

createNaturalType(m, a, numBits) ==
    createSizedNumberType(m, a, m.data.naturalType, Lit.Natural, Lit.n, numBits)

createIntegerType(m, a, numBits) ==
    createSizedNumberType(m, a, m.data.integerType, Lit.Integer, Lit.z, numBits)

createRationalType(m, a, numBits) ==
    createSizedNumberType(m, a, m.data.rationalType, Lit.Rational, Lit.q, numBits)

createRealType(m, a, numBits) ==
    createSizedNumberType(m, a, m.data.realType, Lit.Real, Lit.r, numBits)

createImaginaryType(m, a, numBits) ==
    createSizedNumberType(m, a, m.data.imaginaryType, Lit.Imaginary, Lit.i, numBits)

createComplexType(m, a, numBits) ==
    createSizedNumberType(m, a, m.data.complexType, Lit.Complex, Lit.c, numBits)

\* type_result: the storage is sorted by address, the data moved into the result.
type_result(m, t) ==
    Result([m.data EXCEPT !.storage = sort(@)], m.heap, t)

-----------------------------------------------------------------------------
(* src/Type.cpp: the finders.  d is the TypeData, h the heap the handles    *)
(* point into.                                                              *)

findInnerType(d, base, cont, key) ==
    IF key # <<>> THEN MapFind(cont, key[1]) ELSE base

\* A slip of findInnerNumberType: the width is always looked up, 0 too.
findInnerNumberType_keyed(d, base, cont, numBits) ==
    findInnerType(d, base, cont, <<numBits>>)

findInnerNumberType(d, base, cont, numBits) ==
    findInnerType(d, base, cont, IF numBits # 0 THEN <<numBits>> ELSE <<>>)

\* std::string's operator<: lexicographic order.
RECURSIVE StrLess(_, _)
StrLess(x, y) ==
    IF y = <<>> THEN FALSE
    ELSE IF x = <<>> THEN TRUE
    ELSE IF x[1] # y[1] THEN x[1] < y[1]
    ELSE StrLess(Tail(x), Tail(y))

\* std::sort of a vector of TypeHandle by the member field ("str" or
\* "mangled", what the lambda compares): the vectors it can leave, given as
\* the set of the handles sorted.  std::sort is a function of the vector it
\* is given, and it leaves handles of equal names in an order that is not
\* specified: any of them can come first.
RECURSIVE SortByName(_, _, _)
SortByName(types, h, field) ==
    IF types = {} THEN {<<>>}
    ELSE LET least == {t \in types : \A o \in types : ~StrLess(h[o][field], h[t][field])}
         IN  UNION { {<<t>> \o s : s \in SortByName(types \ {t}, h, field)} : t \in least }

\* getSortedTypes: the vectors it can return on the store d.
getSortedTypes(d, h, field) == SortByName(Elements(d.storage), h, field)

\* std::lower_bound on the sorted vector types and the test against end():
\* the first handle whose name is not less than value, nullptr when there
\* is none.
lower_bound(types, h, field, value) ==
    LET notLess == {k \in DOMAIN types : ~StrLess(h[types[k]][field], value)}
    IN  IF notLess = {} THEN NullPtr
        ELSE types[CHOOSE k \in notLess : \A j \in notLess : k <= j]

\* types is what getSortedTypes has returned to the function (line 151).
findTypeByString(h, types, str) ==
    lower_bound(types, h, "str", str)

\* types is what getSortedTypes has returned to the function (line 160).
findTypeByMangled(h, types, mangled) ==
    lower_bound(types, h, "mangled", mangled)

findInfinityType(d) == d.infinityType

findTypeType(d) == d.typeType

findUnitType(d) == d.unitType

findStringType(d, encoding) ==
    findInnerType(d, d.stringType, d.encodedStringTypes, encoding)

findNaturalType(d, numBits) ==
    findInnerNumberType(d, d.naturalType, d.sizedNaturalTypes, numBits)

findIntegerType(d, numBits) ==
    findInnerNumberType(d, d.integerType, d.sizedIntegerTypes, numBits)

findRationalType(d, numBits) ==
    findInnerNumberType(d, d.rationalType, d.sizedRationalTypes, numBits)

findRealType(d, numBits) ==
    findInnerNumberType(d, d.realType, d.sizedRealTypes, numBits)

findImaginaryType(d, numBits) ==
    findInnerNumberType(d, d.imaginaryType, d.sizedImaginaryTypes, numBits)

findComplexType(d, numBits) ==
    findInnerNumberType(d, d.complexType, d.sizedComplexTypes, numBits)

findNumberType(d) == d.numberType

findSumTypeInner(d, uniqueSortedInnerTypes) ==
    findInnerType(d, NullPtr, d.sumTypes, <<uniqueSortedInnerTypes>>)

\* rank gives the order of the addresses of the members.
findSumType(d, innerTypes, rank) ==
    findSumTypeInner(d, Unique(SortPtrs(innerTypes, rank)))

findProductType(d, innerTypes) ==
    findInnerType(d, NullPtr, d.productTypes, <<innerTypes>>)

\* A slip of a finder: it returns through type_result, as the getters do.
Query_sorting(m, t) == type_result(m, t)

\* A finder takes the TypeData by const reference: the machine state after
\* it is the one before it, and t is what it returns.
Query(m, t) == Result(m.data, m.heap, t)

-----------------------------------------------------------------------------
(* src/Type.cpp: the getters *)

\* The call create(data, *key) of the callable a getter passes, named by
\* the function it is.
Create(create, m, a, key) ==
    CASE create = "createEncodedStringType" -> createEncodedStringType(m, a, key)
      [] create = "createNaturalType"   -> createNaturalType(m, a, key)
      [] create = "createIntegerType"   -> createIntegerType(m, a, key)
      [] create = "createRationalType"  -> createRationalType(m, a, key)
      [] create = "createRealType"      -> createRealType(m, a, key)
      [] create = "createImaginaryType" -> createImaginaryType(m, a, key)
      [] create = "createComplexType"   -> createComplexType(m, a, key)

getInnerType(m, a, base, container, key, create) ==
    LET res == findInnerType(m.data, base, container, key)
    IN  IF res # NullPtr THEN type_result(m, res)
        ELSE LET made == Create(create, m, a, key[1]) IN type_result(made, made.ret)

getInnerNumberType(m, a, base, container, numBits, create) ==
    getInnerType(m, a, base, container,
                 IF numBits # 0 THEN <<numBits>> ELSE <<>>, create)

getInfinityType(m) == type_result(m, findInfinityType(m.data))

getTypeType(m) == type_result(m, findTypeType(m.data))

getUnitType(m) == type_result(m, findUnitType(m.data))

getNaturalType(m, a, numBits) ==
    getInnerNumberType(m, a, m.data.naturalType, m.data.sizedNaturalTypes,
                       numBits, "createNaturalType")

getStringType(m, a, encoding) ==
    getInnerType(m, a, m.data.stringType, m.data.encodedStringTypes,
                 encoding, "createEncodedStringType")

getIntegerType(m, a, numBits) ==
    getInnerNumberType(m, a, m.data.integerType, m.data.sizedIntegerTypes,
                       numBits, "createIntegerType")

getRationalType(m, a, numBits) ==
    getInnerNumberType(m, a, m.data.rationalType, m.data.sizedRationalTypes,
                       numBits, "createRationalType")

getImaginaryType(m, a, numBits) ==
    getInnerNumberType(m, a, m.data.imaginaryType, m.data.sizedImaginaryTypes,
                       numBits, "createImaginaryType")

getRealType(m, a, numBits) ==
    getInnerNumberType(m, a, m.data.realType, m.data.sizedRealTypes,
                       numBits, "createRealType")

getComplexType(m, a, numBits) ==
    getInnerNumberType(m, a, m.data.complexType, m.data.sizedComplexTypes,
                       numBits, "createComplexType")

getNumberType(m) == type_result(m, findNumberType(m.data))

getPartialType(m, a) ==
    LET id   == to_string(Len(m.data.partialTypes))
        type == [NewType EXCEPT !.str = Lit.Unique \o id,
                                !.mangled = Lit.underscore \o id]
    IN  type_result(Result([m.data EXCEPT !.storage = emplace_back(@, a)],
                           (a :> type) @@ m.heap, a),
                    a)

\* A std::vector after it has been moved from (newType->types =
\* std::move(innerTypes)): the standard libraries hand its buffer to the
\* target and leave it empty.
MovedFrom(v) == <<>>

\* The loops of getSumType and getProductType over innerTypes[k..]: the
\* mangled names are appended, the names joined by sep.
RECURSIVE NameLoop(_, _, _, _, _)
NameLoop(h, innerTypes, k, sep, type) ==
    IF k > Len(innerTypes) THEN type
    ELSE NameLoop(h, innerTypes, k + 1, sep,
                  [type EXCEPT !.mangled = @ \o h[innerTypes[k]].mangled,
                               !.str = @ \o sep \o h[innerTypes[k]].str])

\* rank gives the order of the addresses of the members.
getSumType(m, a, types, rank) ==
    LET innerTypes == Unique(SortPtrs(types, rank))
        moved      == MovedFrom(innerTypes)
        res        == findSumTypeInner(m.data, innerTypes)
        storage    == emplace_back(m.data.storage, a)
        newType    == [NewType EXCEPT !.base = findInfinityType(m.data),
                                      !.types = innerTypes,
                                      !.mangled = Lit.u \o to_string(Len(moved))]
    IN  IF res # NullPtr THEN type_result(m, res)
        ELSE IF moved = <<>>
        THEN \* line 318 reads innerTypes[0] of an empty vector
             Fault([m.data EXCEPT !.storage = storage], (a :> newType) @@ m.heap)
        ELSE LET named == NameLoop(m.heap, moved, 2, Lit.bar,
                              [newType EXCEPT
                                  !.mangled = @ \o m.heap[moved[1]].mangled,
                                  !.str = m.heap[moved[1]].str])
                 sumTypes == IF named.types \in DOMAIN m.data.sumTypes
                             THEN m.data.sumTypes
                             ELSE (named.types :> a) @@ m.data.sumTypes
             IN  type_result(Result([m.data EXCEPT !.storage = storage,
                                                   !.sumTypes = sumTypes],
                                    (a :> named) @@ m.heap, a),
                             a)

getProductType(m, a, innerTypes) ==
    LET res     == findProductType(m.data, innerTypes)
        moved   == MovedFrom(innerTypes)
        storage == emplace_back(m.data.storage, a)
        newType == [NewType EXCEPT !.base = findInfinityType(m.data),
                                   !.types = innerTypes]
    IN  IF res # NullPtr THEN type_result(m, res)
        ELSE IF moved = <<>>
        THEN \* line 350 reads innerTypes[0] of an empty vector
             Fault([m.data EXCEPT !.storage = storage], (a :> newType) @@ m.heap)
        ELSE LET named == NameLoop(m.heap, moved, 2, Lit.star,
                              [newType EXCEPT
                                  !.mangled = Lit.p \o to_string(Len(moved))
                                                  \o m.heap[moved[1]].mangled,
                                  !.str = m.heap[moved[1]].str])
                 productTypes == IF named.types \in DOMAIN m.data.productTypes
                                 THEN m.data.productTypes
                                 ELSE (named.types :> a) @@ m.data.productTypes
             IN  type_result(Result([m.data EXCEPT !.storage = storage,
                                                   !.productTypes = productTypes],
                                    (a :> named) @@ m.heap, a),
                             a)

-----------------------------------------------------------------------------
(* lib/Type.cpp.  createEncodedStringType, createSizedNumberType and        *)
(* createNaturalType are those of src/Type.cpp, line for line.              *)

\* TypeData::TypeData() of lib/Type.cpp: seven objects from new, none of them
\* put into the storage.
lib_TypeDataCtor(at) ==
    LET node(str, mangled, base) ==
            [NewType EXCEPT !.base = base, !.str = str, !.mangled = mangled]
        unitT  == at[1]
        strT   == at[2]
        numT   == at[3]
        natT   == at[4]
        intT   == at[5]
        ratioT == at[6]
        realT  == at[7]
    IN  [ data |->
            [ unitType |-> unitT, stringType |-> strT, numberType |-> numT,
              naturalType |-> natT, integerType |-> intT,
              rationalType |-> ratioT, realType |-> realT ]
            @@ RawTypeData,
          heap |->
            (unitT  :> node(Lit.Unit, Lit.u0, NullPtr)) @@
            (strT   :> node(Lit.String, Lit.sq, NullPtr)) @@
            (numT   :> node(Lit.Number, Lit.wq, NullPtr)) @@
            (natT   :> node(Lit.Natural, Lit.nq, numT)) @@
            (intT   :> node(Lit.Integer, Lit.iq, numT)) @@
            (ratioT :> node(Lit.Rational, Lit.qq2, numT)) @@
            (realT  :> node(Lit.Real, Lit.rq, numT)) ]

lib_createIntegerType(m, a, numBits) ==
    createSizedNumberType(m, a, m.data.naturalType, Lit.Integer, Lit.i, numBits)

lib_createRationalType(m, a, numBits) ==
    createSizedNumberType(m, a, m.data.naturalType, Lit.Rational, Lit.q, numBits)

lib_createRealType(m, a, numBits) ==
    createSizedNumberType(m, a, m.data.naturalType, Lit.Real, Lit.r, numBits)

lib_type_result(m, t) == Result(m.data, m.heap, t)

\* The call createFn(data, numBits) of the function a getter passes.
lib_CreateFn(createFn, m, a, numBits) ==
    CASE createFn = "createNaturalType"  -> createNaturalType(m, a, numBits)
      [] createFn = "createIntegerType"  -> lib_createIntegerType(m, a, numBits)
      [] createFn = "createRationalType" -> lib_createRationalType(m, a, numBits)
      [] createFn = "createRealType"     -> lib_createRealType(m, a, numBits)

lib_getInnerNumberType(m, a, base, container, numBits, createFn) ==
    IF numBits # 0
    THEN IF numBits \in DOMAIN container
         THEN lib_type_result(m, container[numBits])
         ELSE LET made == lib_CreateFn(createFn, m, a, numBits)
              IN  lib_type_result(made, made.ret)
    ELSE lib_type_result(m, base)

lib_getUnitType(m) == lib_type_result(m, m.data.unitType)

lib_getStringType(m, a, encoding) ==
    IF encoding # <<>>
    THEN IF encoding[1] \in DOMAIN m.data.encodedStringTypes
         THEN lib_type_result(m, m.data.encodedStringTypes[encoding[1]])
         ELSE LET made == createEncodedStringType(m, a, encoding[1])
              IN  lib_type_result(made, made.ret)
    ELSE lib_type_result(m, m.data.stringType)

lib_getNaturalType(m, a, numBits) ==
    lib_getInnerNumberType(m, a, m.data.naturalType, m.data.sizedNaturalTypes,
                           numBits, "createNaturalType")

lib_getIntegerType(m, a, numBits) ==
    lib_getInnerNumberType(m, a, m.data.integerType, m.data.sizedIntegerTypes,
                           numBits, "createIntegerType")

lib_getRationalType(m, a, numBits) ==
    lib_getInnerNumberType(m, a, m.data.rationalType, m.data.sizedRationalTypes,
                           numBits, "createRationalType")

lib_getRealType(m, a, numBits) ==
    lib_getInnerNumberType(m, a, m.data.realType, m.data.sizedRealTypes,
                           numBits, "createRealType")

-----------------------------------------------------------------------------
(* The calls a program makes *)

\* The machine state a call runs on.
M == [data |-> data, heap |-> heap]

\* What make_unique<Type>() returns to a call: the address of the next
\* allocation, while the bound leaves room for one.  NullPtr stands for
\* "the call allocates nothing".
Free == ({Address(Cardinality(DOMAIN heap) + 1)} \cap Addr(build)) \cup {NullPtr}

Allocated(a, r) == (a # NullPtr) <=> (DOMAIN r.heap # DOMAIN heap)

\* The member lists the callers pass to the sum and product functions.
MemberInputs(d) ==
    LET A == d.integerType
        B == d.naturalType
    IN  {<<>>, <<A>>, <<A, A>>, <<A, B>>, <<B, A>>, <<A, B, A>>}

\* The objects the callers list as members.
Listed(d) == UNION {Range(l) : l \in MemberInputs(d)}

\* What getSortedTypes can return on the store d under each of the two
\* comparators.
Sorts(d, h) ==
    [str : getSortedTypes(d, h, "str"), mangled : getSortedTypes(d, h, "mangled")]

\* The names the callers look up: a root's, a sized type's, and one greater
\* than every name.
StringQueries == {Lit.Integer, Lit.Natural \o to_string(32), <<127>>}

MangledQueries == {Lit.zq, Lit.n \o to_string(32), <<127>>}

Call(op, bits, enc, types, name) ==
    [op |-> op, bits |-> bits, enc |-> enc, types |-> types, name |-> name,
     ret |-> NullPtr]

NoBits == 0

\* The call returns r.ret and the caller keeps r.data, or the call faults.
Commit(r, call) ==
    /\ pc = "open"
    /\ data' = r.data
    /\ heap' = r.heap
    /\ pc' = IF r.fault THEN "crashed" ELSE "open"
    /\ last' = [call EXCEPT !.ret = r.ret]
    /\ byName' \in IF r.data = data /\ r.heap = heap THEN {byName}
                  ELSE Sorts(r.data, r.heap)
    /\ UNCHANGED <<build, addr>>

Init ==
    /\ build \in {"src", "lib"}
    /\ LET made == IF build = "src" THEN TypeDataCtor(Allocations(NumRoots))
                    ELSE lib_TypeDataCtor(Allocations(LibNumRoots))
       IN  data = made.data /\ heap = made.heap
    /\ pc = "open"
    /\ last = Call("TypeData", NoBits, <<>>, <<>>, <<>>)
    /\ partials = <<>>
    /\ addr \in Ranks(Listed(data))
    /\ byName \in Sorts(data, heap)

GetInfinityType ==
    /\ build = "src"
    /\ Commit(getInfinityType(M), Call("getInfinityType", NoBits, <<>>, <<>>, <<>>))
    /\ UNCHANGED partials

GetTypeType ==
    /\ build = "src"
    /\ Commit(getTypeType(M), Call("getTypeType", NoBits, <<>>, <<>>, <<>>))
    /\ UNCHANGED partials

GetUnitType ==
    /\ build = "src"
    /\ Commit(getUnitType(M), Call("getUnitType", NoBits, <<>>, <<>>, <<>>))
    /\ UNCHANGED partials

GetNumberType ==
    /\ build = "src"
    /\ Commit(getNumberType(M), Call("getNumberType", NoBits, <<>>, <<>>, <<>>))
    /\ UNCHANGED partials

GetNaturalType ==
    /\ build = "src"
    /\ \E numBits \in Widths, a \in Free :
          LET r == getNaturalType(M, a, numBits)
          IN  /\ Allocated(a, r)
              /\ Commit(r, Call("getNaturalType", numBits, <<>>, <<>>, <<>>))
    /\ UNCHANGED partials

GetIntegerType ==
    /\ build = "src"
    /\ \E numBits \in Widths, a \in Free :
          LET r == getIntegerType(M, a, numBits)
          IN  /\ Allocated(a, r)
              /\ Commit(r, Call("getIntegerType", numBits, <<>>, <<>>, <<>>))
    /\ UNCHANGED partials

GetRationalType ==
    /\ build = "src"
    /\ \E numBits \in Widths, a \in Free :
          LET r == getRationalType(M, a, numBits)
          IN  /\ Allocated(a, r)
              /\ Commit(r, Call("getRationalType", numBits, <<>>, <<>>, <<>>))
    /\ UNCHANGED partials

GetImaginaryType ==
    /\ build = "src"
    /\ \E numBits \in Widths, a \in Free :
          LET r == getImaginaryType(M, a, numBits)
          IN  /\ Allocated(a, r)
              /\ Commit(r, Call("getImaginaryType", numBits, <<>>, <<>>, <<>>))
    /\ UNCHANGED partials

GetRealType ==
    /\ build = "src"
    /\ \E numBits \in Widths, a \in Free :
          LET r == getRealType(M, a, numBits)
          IN  /\ Allocated(a, r)
              /\ Commit(r, Call("getRealType", numBits, <<>>, <<>>, <<>>))
    /\ UNCHANGED partials

GetComplexType ==
    /\ build = "src"
    /\ \E numBits \in Widths, a \in Free :
          LET r == getComplexType(M, a, numBits)
          IN  /\ Allocated(a, r)
              /\ Commit(r, Call("getComplexType", numBits, <<>>, <<>>, <<>>))
    /\ UNCHANGED partials

GetStringType ==
    /\ build = "src"
    /\ \E encoding \in Optional(Encodings), a \in Free :
          LET r == getStringType(M, a, encoding)
          IN  /\ Allocated(a, r)
              /\ Commit(r, Call("getStringType", NoBits, encoding, <<>>, <<>>))
    /\ UNCHANGED partials

GetPartialType ==
    /\ build = "src"
    /\ \E a \in Free :
          LET r == getPartialType(M, a)
          IN  /\ Allocated(a, r)
              /\ Commit(r, Call("getPartialType", NoBits, <<>>, <<>>, <<>>))
              /\ partials' = Append(partials, r.ret)

GetSumType ==
    /\ build = "src"
    /\ \E innerTypes \in MemberInputs(data), a \in Free :
          LET r == getSumType(M, a, innerTypes, addr)
          IN  /\ Allocated(a, r)
              /\ Commit(r, Call("getSumType", NoBits, <<>>, innerTypes, <<>>))
    /\ UNCHANGED partials

GetProductType ==
    /\ build = "src"
    /\ \E innerTypes \in MemberInputs(data), a \in Free :
          LET r == getProductType(M, a, innerTypes)
          IN  /\ Allocated(a, r)
              /\ Commit(r, Call("getProductType", NoBits, <<>>, innerTypes, <<>>))
    /\ UNCHANGED partials

FindInfinityType ==
    /\ build = "src"
    /\ Commit(Query(M, findInfinityType(data)), Call("findInfinityType", NoBits, <<>>, <<>>, <<>>))
    /\ UNCHANGED partials

FindTypeType ==
    /\ build = "src"
    /\ Commit(Query(M, findTypeType(data)), Call("findTypeType", NoBits, <<>>, <<>>, <<>>))
    /\ UNCHANGED partials

FindUnitType ==
    /\ build = "src"
    /\ Commit(Query(M, findUnitType(data)), Call("findUnitType", NoBits, <<>>, <<>>, <<>>))
    /\ UNCHANGED partials

FindNumberType ==
    /\ build = "src"
    /\ Commit(Query(M, findNumberType(data)), Call("findNumberType", NoBits, <<>>, <<>>, <<>>))
    /\ UNCHANGED partials

FindNaturalType ==
    /\ build = "src"
    /\ \E numBits \in Widths :
          Commit(Query(M, findNaturalType(data, numBits)),
                 Call("findNaturalType", numBits, <<>>, <<>>, <<>>))
    /\ UNCHANGED partials

FindIntegerType ==
    /\ build = "src"
    /\ \E numBits \in Widths :
          Commit(Query(M, findIntegerType(data, numBits)),
                 Call("findIntegerType", numBits, <<>>, <<>>, <<>>))
    /\ UNCHANGED partials

FindRationalType ==
    /\ build = "src"
    /\ \E numBits \in Widths :
          Commit(Query(M, findRationalType(data, numBits)),
                 Call("findRationalType", numBits, <<>>, <<>>, <<>>))
    /\ UNCHANGED partials

FindImaginaryType ==
    /\ build = "src"
    /\ \E numBits \in Widths :
          Commit(Query(M, findImaginaryType(data, numBits)),
                 Call("findImaginaryType", numBits, <<>>, <<>>, <<>>))
    /\ UNCHANGED partials

FindRealType ==
    /\ build = "src"
    /\ \E numBits \in Widths :
          Commit(Query(M, findRealType(data, numBits)),
                 Call("findRealType", numBits, <<>>, <<>>, <<>>))
    /\ UNCHANGED partials

FindComplexType ==
    /\ build = "src"
    /\ \E numBits \in Widths :
          Commit(Query(M, findComplexType(data, numBits)),
                 Call("findComplexType", numBits, <<>>, <<>>, <<>>))
    /\ UNCHANGED partials

FindStringType ==
    /\ build = "src"
    /\ \E encoding \in Optional(Encodings) :
          Commit(Query(M, findStringType(data, encoding)),
                 Call("findStringType", NoBits, encoding, <<>>, <<>>))
    /\ UNCHANGED partials

FindSumType ==
    /\ build = "src"
    /\ \E innerTypes \in MemberInputs(data) :
          Commit(Query(M, findSumType(data, innerTypes, addr)),
                 Call("findSumType", NoBits, <<>>, innerTypes, <<>>))
    /\ UNCHANGED partials

FindProductType ==
    /\ build = "src"
    /\ \E innerTypes \in MemberInputs(data) :
          Commit(Query(M, findProductType(data, innerTypes)),
                 Call("findProductType", NoBits, <<>>, innerTypes, <<>>))
    /\ UNCHANGED partials

FindTypeByString ==
    /\ build = "src"
    /\ \E str \in StringQueries :
          Commit(Query(M, findTypeByString(heap, byName.str, str)),
                 Call("findTypeByString", NoBits, <<>>, <<>>, str))
    /\ UNCHANGED partials

FindTypeByMangled ==
    /\ build = "src"
    /\ \E mangled \in MangledQueries :
          Commit(Query(M, findTypeByMangled(heap, byName.mangled, mangled)),
                 Call("findTypeByMangled", NoBits, <<>>, <<>>, mangled))
    /\ UNCHANGED partials

LibGetUnitType ==
    /\ build = "lib"
    /\ Commit(lib_getUnitType(M), Call("getUnitType", NoBits, <<>>, <<>>, <<>>))
    /\ UNCHANGED partials

LibGetStringType ==
    /\ build = "lib"
    /\ \E encoding \in Optional(Encodings), a \in Free :
          LET r == lib_getStringType(M, a, encoding)
          IN  /\ Allocated(a, r)
              /\ Commit(r, Call("getStringType", NoBits, encoding, <<>>, <<>>))
    /\ UNCHANGED partials

LibGetNaturalType ==
    /\ build = "lib"
    /\ \E numBits \in Widths, a \in Free :
          LET r == lib_getNaturalType(M, a, numBits)
          IN  /\ Allocated(a, r)
              /\ Commit(r, Call("getNaturalType", numBits, <<>>, <<>>, <<>>))
    /\ UNCHANGED partials

LibGetIntegerType ==
    /\ build = "lib"
    /\ \E numBits \in Widths, a \in Free :
          LET r == lib_getIntegerType(M, a, numBits)
          IN  /\ Allocated(a, r)
              /\ Commit(r, Call("getIntegerType", numBits, <<>>, <<>>, <<>>))
    /\ UNCHANGED partials

LibGetRationalType ==
    /\ build = "lib"
    /\ \E numBits \in Widths, a \in Free :
          LET r == lib_getRationalType(M, a, numBits)
          IN  /\ Allocated(a, r)
              /\ Commit(r, Call("getRationalType", numBits, <<>>, <<>>, <<>>))
    /\ UNCHANGED partials

LibGetRealType ==
    /\ build = "lib"
    /\ \E numBits \in Widths, a \in Free :
          LET r == lib_getRealType(M, a, numBits)
          IN  /\ Allocated(a, r)
              /\ Commit(r, Call("getRealType", numBits, <<>>, <<>>, <<>>))
    /\ UNCHANGED partials

Next ==
    \/ GetInfinityType
    \/ GetTypeType
    \/ GetUnitType
    \/ GetNumberType
    \/ GetNaturalType
    \/ GetIntegerType
    \/ GetRationalType
    \/ GetImaginaryType
    \/ GetRealType
    \/ GetComplexType
    \/ GetStringType
    \/ GetPartialType
    \/ GetSumType
    \/ GetProductType
    \/ FindInfinityType
    \/ FindTypeType
    \/ FindUnitType
    \/ FindNumberType
    \/ FindNaturalType
    \/ FindIntegerType
    \/ FindRationalType
    \/ FindImaginaryType
    \/ FindRealType
    \/ FindComplexType
    \/ FindStringType
    \/ FindSumType
    \/ FindProductType
    \/ FindTypeByString
    \/ FindTypeByMangled
    \/ LibGetUnitType
    \/ LibGetStringType
    \/ LibGetNaturalType
    \/ LibGetIntegerType
    \/ LibGetRationalType
    \/ LibGetRealType

Spec == Init /\ [][Next]_vars

-----------------------------------------------------------------------------
(* What the claims speak of *)

\* The nodes the arena owns.
Arena(d) == Elements(d.storage)

SizedGetOps ==
    {"getNaturalType", "getIntegerType", "getRationalType", "getRealType",
     "getImaginaryType", "getComplexType"}

RootGetOps == {"getInfinityType", "getTypeType", "getUnitType", "getNumberType"}

FindOps ==
    {"findInfinityType", "findTypeType", "findUnitType", "findNumberType",
     "findStringType", "findNaturalType", "findIntegerType", "findRationalType",
     "findRealType", "findImaginaryType", "findComplexType", "findSumType",
     "findProductType", "findTypeByString", "findTypeByMangled"}

\* The root handle fields of TypeData.
RootFields ==
    {"infinityType", "partialType", "typeType", "unitType", "stringType",
     "numberType", "complexType", "imaginaryType", "realType", "rationalType",
     "integerType", "naturalType", "booleanType", "functionType"}

\* The interning tables and the partial log.
Tables(d) ==
    <<d.sizedBooleanTypes, d.sizedNaturalTypes, d.sizedIntegerTypes,
      d.sizedRationalTypes, d.sizedImaginaryTypes, d.sizedRealTypes,
      d.sizedComplexTypes, d.encodedStringTypes, d.functionTypes,
      d.sumTypes, d.productTypes, d.partialTypes>>

\* What every finder answers on the store d, for every argument the callers pass.
FindResults(d, h) ==
    <<findInfinityType(d), findTypeType(d), findUnitType(d), findNumberType(d),
      [e \in Optional(Encodings) |-> findStringType(d, e)],
      [w \in Widths |-> findNaturalType(d, w)],
      [w \in Widths |-> findIntegerType(d, w)],
      [w \in Widths |-> findRationalType(d, w)],
      [w \in Widths |-> findRealType(d, w)],
      [w \in Widths |-> findImaginaryType(d, w)],
      [w \in Widths |-> findComplexType(d, w)],
      [l \in MemberInputs(d) |-> findSumType(d, l, addr)],
      [l \in MemberInputs(d) |-> findProductType(d, l)],
      [q \in StringQueries |->
          {findTypeByString(h, types, q) : types \in getSortedTypes(d, h, "str")}],
      [q \in MangledQueries |->
          {findTypeByMangled(h, types, q) : types \in getSortedTypes(d, h, "mangled")}]>>

\* The two calls have the same name and the same arguments.
SameCall(c1, c2) ==
    /\ c1.op = c2.op
    /\ c1.bits = c2.bits
    /\ c1.enc = c2.enc
    /\ c1.types = c2.types
    /\ c1.name = c2.name

\* The finder that matches a keyed get call, on the store d.
MatchingFind(d, call) ==
    CASE call.op = "getNaturalType"   -> findNaturalType(d, call.bits)
      [] call.op = "getIntegerType"   -> findIntegerType(d, call.bits)
      [] call.op = "getRationalType"  -> findRationalType(d, call.bits)
      [] call.op = "getRealType"      -> findRealType(d, call.bits)
      [] call.op = "getImaginaryType" -> findImaginaryType(d, call.bits)
      [] call.op = "getComplexType"   -> findComplexType(d, call.bits)
      [] call.op = "getStringType"    -> findStringType(d, call.enc)
      [] call.op = "getSumType"       -> findSumType(d, call.types, addr)
      [] call.op = "getProductType"   -> findProductType(d, call.types)

\* The get call creates: a sized numeric type of a width above 0, a string
\* type of a recognised encoding, a sum or a product.
KeyedCreation(call) ==
    \/ call.op \in SizedGetOps /\ call.bits > 0
    \/ call.op = "getStringType" /\ call.enc \in {<<"ascii">>, <<"utf8">>}
    \/ call.op \in {"getSumType", "getProductType"}

-----------------------------------------------------------------------------
(* The claims *)

\* C1: a get other than getPartialType, called again with the same arguments
\* on the store the first call returned, returns the same handle, and every
\* finder answers on the second store what it answered on the first.
C1_Idempotent ==
    [][ ( /\ SameCall(last, last')
          /\ last'.op \in (SizedGetOps \cup RootGetOps
                             \cup {"getStringType", "getSumType", "getProductType"})
          /\ pc' = "open" )
        => ( /\ last'.ret = last.ret
             /\ FindResults(data', heap') = FindResults(data, heap) ) ]_vars

\* C2: a keyed get whose matching find misses adds exactly one node to the
\* arena and registers it, so that the matching find on the returned store
\* returns the handle the get returned.
C2_CreationRegisters ==
    [][ ( /\ build = "src"
          /\ KeyedCreation(last')
          /\ MatchingFind(data, last') = NullPtr )
        => ( /\ pc' = "open"
             /\ size(data'.storage) = size(data.storage) + 1
             /\ last'.ret \in Arena(data')
             /\ MatchingFind(data', last') = last'.ret ) ]_vars

\* C3: getSumType on a list of at least two distinct members returns a handle
\* that findSumType returns for every order and repetition of these members,
\* and a second getSumType on such a list returns the same handle and adds no
\* node to the arena.
C3_SumCanonical ==
    [][ ( /\ last'.op = "getSumType"
          /\ Cardinality(Range(last'.types)) >= 2 )
        => ( /\ pc' = "open"
             /\ last'.ret \in Arena(data')
             /\ \A l \in MemberInputs(data') :
                   Range(l) = Range(last'.types) => findSumType(data', l, addr) = last'.ret
             /\ ( last.op = "getSumType" /\ Range(last.types) = Range(last'.types) )
                   => ( /\ last'.ret = last.ret
                        /\ size(data'.storage) = size(data.storage) ) ) ]_vars

\* C4: getProductType on [A, B] and on [B, A], A # B, return two distinct
\* handles, each stored under its own ordered key in the product table.
C4_ProductOrder ==
    [][ ( /\ last'.op = "getProductType"
          /\ Len(last'.types) = 2
          /\ last'.types[1] # last'.types[2] )
        => ( /\ pc' = "open"
             /\ last'.ret \in Arena(data')
             /\ findProductType(data', last'.types) = last'.ret
             /\ findProductType(data', <<last'.types[2], last'.types[1]>>) # last'.ret ) ]_vars

\* C5: across every call the nodes the arena owns stay in it, and no field of
\* an existing Type object changes: a handle issued earlier denotes the same
\* node afterwards.
C5_AppendOnly ==
    [][ /\ Arena(data) \subseteq Arena(data')
        /\ \A t \in DOMAIN heap : t \in DOMAIN heap' /\ heap'[t] = heap[t] ]_vars

\* A sized type has been created and type_result has sorted it into the
\* storage, among the constructor's objects.
C5_Witness ==
    /\ build = "src"
    /\ pc = "open"
    /\ last.op \in SizedGetOps
    /\ last.bits > 0
    /\ size(data.storage) > NumRoots
    /\ last.ret \in data.storage.sorted
    /\ data.storage.rest = <<>>

\* C6: no two distinct nodes of the arena have the same mangled name.
C6_UniqueMangled ==
    pc = "open" =>
        \A t, o \in Arena(data) : t # o => heap[t].mangled # heap[o].mangled

\* C7: the handles getPartialType has returned are pairwise distinct nodes of
\* the arena, and partialTypes holds them, the k-th at index k.
C7_PartialLog ==
    pc = "open" =>
        /\ \A k \in DOMAIN partials : partials[k] \in Arena(data)
        /\ \A j, k \in DOMAIN partials : j # k => partials[j] # partials[k]
        /\ Len(data.partialTypes) = Len(partials)
        /\ \A k \in DOMAIN partials : data.partialTypes[k] = partials[k]

\* Following base from t reaches top in at most n steps, through objects only.
RECURSIVE ReachesTop(_, _, _, _)
ReachesTop(h, top, t, n) ==
    IF t = top THEN TRUE
    ELSE IF n = 0 \/ t \notin DOMAIN h THEN FALSE
    ELSE ReachesTop(h, top, h[t].base, n - 1)

\* C8: from every node of the arena the base chain reaches the Infinity node
\* in at most 7 steps, and Infinity is the only node that is its own base.
C8_AncestryTerminates ==
    (build = "src" /\ pc = "open") =>
        \A t \in Arena(data) :
            /\ ReachesTop(heap, data.infinityType, t, 7)
            /\ heap[t].base = t => t = data.infinityType

Families == {"Natural", "Integer", "Rational", "Real", "Imaginary", "Complex"}

FamilyOf ==
    [getNaturalType |-> "Natural", getIntegerType |-> "Integer",
     getRationalType |-> "Rational", getRealType |-> "Real",
     getImaginaryType |-> "Imaginary", getComplexType |-> "Complex"]

\* The root handle of a sized numeric family.
FamilyRoot(d, f) ==
    CASE f = "Natural"   -> d.naturalType
      [] f = "Integer"   -> d.integerType
      [] f = "Rational"  -> d.rationalType
      [] f = "Real"      -> d.realType
      [] f = "Imaginary" -> d.imaginaryType
      [] f = "Complex"   -> d.complexType

\* The finder of a sized numeric family.
FindSized(d, f, numBits) ==
    CASE f = "Natural"   -> findNaturalType(d, numBits)
      [] f = "Integer"   -> findIntegerType(d, numBits)
      [] f = "Rational"  -> findRationalType(d, numBits)
      [] f = "Real"      -> findRealType(d, numBits)
      [] f = "Imaginary" -> findImaginaryType(d, numBits)
      [] f = "Complex"   -> findComplexType(d, numBits)

\* The sized numeric families each Type.cpp has a getter for.
BuildFamilies ==
    IF build = "src" THEN Families
    ELSE {"Natural", "Integer", "Rational", "Real"}

\* C9: the root handles of the sized numeric families stay those of the
\* constructor; with width 0 the finder of a family returns its root handle,
\* and the getter returns it and adds no node and no table entry.
C9_ZeroWidthIsRoot ==
    [][ /\ \A f \in BuildFamilies : FamilyRoot(data', f) = FamilyRoot(data, f)
        /\ build = "src" =>
              \A f \in Families :
                  /\ FindSized(data, f, 0) = FamilyRoot(data, f)
                  /\ FindSized(data', f, 0) = FamilyRoot(data', f)
        /\ (last'.op \in SizedGetOps /\ last'.bits = 0) =>
              /\ pc' = "open"
              /\ last'.ret = FamilyRoot(data, FamilyOf[last'.op])
              /\ last'.ret \in DOMAIN heap
              /\ size(data'.storage) = size(data.storage)
              /\ Arena(data') = Arena(data)
              /\ Tables(data') = Tables(data)
              /\ heap' = heap ]_vars

\* getIntegerType(s, 0) has returned the Integer root on a store that holds
\* created nodes.
C9_Witness ==
    /\ build = "src"
    /\ last.op = "getIntegerType"
    /\ last.bits = 0
    /\ last.ret = data.integerType
    /\ size(data.storage) > NumRoots

\* The find calls the callers make on the store d.
FindCalls(d) ==
    {Call(op, NoBits, <<>>, <<>>, <<>>) :
        op \in {"findInfinityType", "findTypeType", "findUnitType", "findNumberType"}}
    \cup {Call(op, w, <<>>, <<>>, <<>>) :
        op \in {"findNaturalType", "findIntegerType", "findRationalType",
                "findRealType", "findImaginaryType", "findComplexType"},
        w \in Widths}
    \cup {Call("findStringType", NoBits, e, <<>>, <<>>) : e \in Optional(Encodings)}
    \cup {Call(op, NoBits, <<>>, l, <<>>) :
        op \in {"findSumType", "findProductType"}, l \in MemberInputs(d)}
    \cup {Call("findTypeByString", NoBits, <<>>, <<>>, q) : q \in StringQueries}
    \cup {Call("findTypeByMangled", NoBits, <<>>, <<>>, q) : q \in MangledQueries}

\* What the find call returns on the store d, types being what getSortedTypes
\* returns on it.
FindAnswer(d, h, types, call) ==
    CASE call.op = "findInfinityType"  -> findInfinityType(d)
      [] call.op = "findTypeType"      -> findTypeType(d)
      [] call.op = "findUnitType"      -> findUnitType(d)
      [] call.op = "findNumberType"    -> findNumberType(d)
      [] call.op = "findStringType"    -> findStringType(d, call.enc)
      [] call.op = "findNaturalType"   -> findNaturalType(d, call.bits)
      [] call.op = "findIntegerType"   -> findIntegerType(d, call.bits)
      [] call.op = "findRationalType"  -> findRationalType(d, call.bits)
      [] call.op = "findRealType"      -> findRealType(d, call.bits)
      [] call.op = "findImaginaryType" -> findImaginaryType(d, call.bits)
      [] call.op = "findComplexType"   -> findComplexType(d, call.bits)
      [] call.op = "findSumType"       -> findSumType(d, call.types, addr)
      [] call.op = "findProductType"   -> findProductType(d, call.types)
      [] call.op = "findTypeByString"  -> findTypeByString(h, types.str, call.name)
      [] call.op = "findTypeByMangled" -> findTypeByMangled(h, types.mangled, call.name)

-----------------------------------------------------------------------------
(* Name lookup *)

\* C11: in a store a caller holds, looking up the mangled name of a node of
\* the arena returns that node and no other, and so does looking up its
\* display name.
C11_RoundTrip ==
    (build = "src" /\ pc = "open")
    => \A T \in Arena(data) :
          /\ \A types \in getSortedTypes(data, heap, "mangled") :
                findTypeByMangled(heap, types, heap[T].mangled) = T
          /\ \A types \in getSortedTypes(data, heap, "str") :
                findTypeByString(heap, types, heap[T].str) = T

\* The member a name lookup compares.
LookupField(op) == IF op = "findTypeByString" THEN "str" ELSE "mangled"

\* C12: a name lookup returns a node whose name is the query, or nullptr
\* when no node of the arena has that name.
C12_ExactOrMiss ==
    [][ last'.op \in {"findTypeByString", "findTypeByMangled"}
        => LET f == LookupField(last'.op)
               named == {t \in Arena(data) : heap[t][f] = last'.name}
           IN  IF named = {} THEN last'.ret = NullPtr
               ELSE last'.ret \in named ]_vars

-----------------------------------------------------------------------------
(* Degenerate member lists *)

\* C13: getProductType on an empty list or on a single member returns to the
\* caller (the arity error is a result, not a fault) and leaves the store as
\* it was: no node added, no product-table entry added.
C13_ProductArity ==
    [][ (last'.op = "getProductType" /\ Len(last'.types) < 2)
        => ( /\ pc' = "open"
             /\ Arena(data') = Arena(data)
             /\ heap' = heap
             /\ data'.productTypes = data.productTypes ) ]_vars

\* C14: getSumType on a list with fewer than two distinct members returns to
\* the caller, with the single member's own handle or with no handle, and
\* adds no node to the arena and no entry to the sum table.
C14_DegenerateSum ==
    [][ (last'.op = "getSumType" /\ Cardinality(Range(last'.types)) < 2)
        => ( /\ pc' = "open"
             /\ last'.ret \in Range(last'.types) \cup {NullPtr}
             /\ Arena(data') = Arena(data)
             /\ heap' = heap
             /\ data'.sumTypes = data.sumTypes ) ]_vars

-----------------------------------------------------------------------------
(* Sized numeric types *)

\* The prefix of a family: the first character of its root's mangled name.
FamilyPrefix(d, h, f) == SubSeq(h[FamilyRoot(d, f)].mangled, 1, 1)

\* C15: a sized numeric getter called with a width n > 0 returns a node other
\* than the root of its family, whose base is that root, whose display name
\* is the root's name followed by n and whose mangled name is the family's
\* prefix followed by n; the prefixes of two families differ.  In both
\* src/Type.cpp and lib/Type.cpp.
C15_SizedRefinesRoot ==
    [][ (last'.op \in DOMAIN FamilyOf /\ last'.bits > 0)
        => LET f    == FamilyOf[last'.op]
               root == FamilyRoot(data, f)
               T    == last'.ret
           IN  /\ T # root
               /\ T \in DOMAIN heap'
               /\ heap'[T].base = root
               /\ heap'[T].str = heap[root].str \o to_string(last'.bits)
               /\ heap'[T].mangled = FamilyPrefix(data, heap, f)
                                        \o to_string(last'.bits)
               /\ \A g \in BuildFamilies \ {f} :
                     FamilyPrefix(data, heap, g) # FamilyPrefix(data, heap, f)
      ]_vars

-----------------------------------------------------------------------------
(* Bootstrap *)

\* C16: after construction and in every store a caller holds, every root
\* handle field is set to a node of the arena; Infinity is its own base;
\* Type, Unit, String, Number have base Infinity; Complex has base Number,
\* Imaginary and Real base Complex, Rational base Real, Integer base
\* Rational, Natural base Integer, Boolean base Natural.  Stated of the
\* constructor of src/Type.cpp.
C16_Bootstrap ==
    (build = "src" /\ pc = "open")
    => /\ \A f \in RootFields : \A v \in Member(data, heap, f) : v \in Arena(data)
       /\ heap[data.infinityType].base = data.infinityType
       /\ \A f \in {"typeType", "unitType", "stringType", "numberType"} :
             heap[data[f]].base = data.infinityType
       /\ heap[data.complexType].base = data.numberType
       /\ heap[data.imaginaryType].base = data.complexType
       /\ heap[data.realType].base = data.complexType
       /\ heap[data.rationalType].base = data.realType
       /\ heap[data.integerType].base = data.rationalType
       /\ heap[data.naturalType].base = data.integerType
       /\ heap[data.booleanType].base = data.naturalType

-----------------------------------------------------------------------------
(* src/Type.cpp: the predicates.  Each takes the handle alone and reads the *)
(* mangled name of the object it points to.                                 *)

\* type->mangled[0]: the first character, the terminator 0 of an empty string.
mangled0(type) == IF type.mangled = <<>> THEN <<0>> ELSE SubSeq(type.mangled, 1, 1)

isInfinityType(type) == type.mangled = Lit.qq

isTypeType(type) == type.mangled = Lit.tq

isUnitType(type) == type.mangled = Lit.u0

isStringType(type) == mangled0(type) = Lit.s

isNaturalType(type) == mangled0(type) = Lit.n

isIntegerType(type) == mangled0(type) = Lit.z

isRationalType(type) == mangled0(type) = Lit.q

isRealType(type) == mangled0(type) = Lit.r

isImaginaryType(type) == mangled0(type) = Lit.i

isComplexType(type) == mangled0(type) = Lit.c

isNumberType(type) == mangled0(type) = Lit.w

isFunctionType(type) == mangled0(type) = Lit.f

isPartialType(type) == mangled0(type) = Lit.underscore

\* The family predicates, by family.
PredicateFamilies ==
    {"Unit", "String", "Number", "Natural", "Integer", "Rational", "Real",
     "Imaginary", "Complex", "Function", "Partial"}

isXType(X, type) ==
    CASE X = "Unit"      -> isUnitType(type)
      [] X = "String"    -> isStringType(type)
      [] X = "Number"    -> isNumberType(type)
      [] X = "Natural"   -> isNaturalType(type)
      [] X = "Integer"   -> isIntegerType(type)
      [] X = "Rational"  -> isRationalType(type)
      [] X = "Real"      -> isRealType(type)
      [] X = "Imaginary" -> isImaginaryType(type)
      [] X = "Complex"   -> isComplexType(type)
      [] X = "Function"  -> isFunctionType(type)
      [] X = "Partial"   -> isPartialType(type)

\* What reading the root handle a family predicate is about can give.
PredicateRoot(d, h, X) ==
    CASE X = "Unit"      -> Member(d, h, "unitType")
      [] X = "String"    -> Member(d, h, "stringType")
      [] X = "Number"    -> Member(d, h, "numberType")
      [] X = "Function"  -> Member(d, h, "functionType")
      [] X = "Partial"   -> Member(d, h, "partialType")
      [] OTHER           -> {FamilyRoot(d, X)}

\* C17: for every node T of the arena and every family predicate, the
\* predicate is true of T exactly when T is the family's root or the base
\* chain from T reaches that root.
C17_PredicatesByAncestry ==
    (build = "src" /\ pc = "open")
    => \A T \in Arena(data) : \A X \in PredicateFamilies :
          \A root \in PredicateRoot(data, heap, X) :
             isXType(X, heap[T]) <=> ReachesTop(heap, root, T, 7)

-----------------------------------------------------------------------------
(* Sum and product nodes *)

\* The nodes a step adds to the arena.
Created == Arena(data') \ Arena(data)

\* The field (str or mangled) of the members of types, joined by sep.
RECURSIVE Joined(_, _, _, _)
Joined(h, types, field, sep) ==
    IF types = <<>> THEN <<>>
    ELSE IF Len(types) = 1 THEN h[types[1]][field]
    ELSE h[types[1]][field] \o sep \o Joined(h, Tail(types), field, sep)

\* C18: the sum node getSumType creates from at least two distinct members
\* lists each distinct member once, in ascending order of mangled name
\* whatever the order of the members' addresses, is returned by the call, and
\* is stored in the sum table under that same list.
C18_SumMembersByName ==
    [][ (last'.op = "getSumType" /\ Cardinality(Range(last'.types)) >= 2)
        => \A N \in Created :
              LET types == heap'[N].types
              IN  /\ Range(types) = Range(last'.types)
                  /\ Len(types) = Cardinality(Range(last'.types))
                  /\ \A i, j \in DOMAIN types :
                        i < j => StrLess(heap[types[i]].mangled,
                                         heap[types[j]].mangled)
                  /\ last'.ret = N
                  /\ types \in DOMAIN data'.sumTypes
                  /\ data'.sumTypes[types] = N ]_vars

\* C19: the sum node getSumType creates from k >= 2 distinct members has the
\* mangled name "u", the decimal number of members stored in its list, then
\* the members' mangled names in stored order; its display name is the
\* members' display names in that order joined by " | "; the call returns it.
C19_SumNaming ==
    [][ (last'.op = "getSumType" /\ Cardinality(Range(last'.types)) >= 2)
        => \A N \in Created :
              LET types == heap'[N].types
              IN  /\ last'.ret = N
                  /\ Len(types) = Cardinality(Range(last'.types))
                  /\ heap'[N].mangled = Lit.u \o to_string(Len(types))
                                           \o Joined(heap, types, "mangled", <<>>)
                  /\ heap'[N].str = Joined(heap, types, "str", Lit.bar) ]_vars

\* C20: the product node getProductType creates from k >= 2 members lists
\* them in the caller's order and has the mangled name "p", the decimal k,
\* then the members' mangled names in that order; the call returns it.
C20_ProductNaming ==
    [][ (last'.op = "getProductType" /\ Len(last'.types) >= 2)
        => \A N \in Created :
              /\ last'.ret = N
              /\ heap'[N].types = last'.types
              /\ heap'[N].mangled = Lit.p \o to_string(Len(last'.types))
                                       \o Joined(heap, last'.types, "mangled", <<>>) ]_vars

-----------------------------------------------------------------------------
(* Placeholders *)

\* C21: the k-th node getPartialType has returned (k = 0, 1, 2, ...) has the
\* mangled name "_" followed by the decimal k, so two placeholders have
\* different names.
C21_PartialNaming ==
    pc = "open"
    => /\ \A k \in DOMAIN partials :
             heap[partials[k]].mangled = Lit.underscore \o to_string(k - 1)
       /\ \A j, k \in DOMAIN partials :
             j # k => heap[partials[j]].mangled # heap[partials[k]].mangled

-----------------------------------------------------------------------------
(* Tables and arena *)

\* The tables keyed by a width or an encoding.
KeyedTables(d) ==
    {d.sizedBooleanTypes, d.sizedNaturalTypes, d.sizedIntegerTypes,
     d.sizedRationalTypes, d.sizedImaginaryTypes, d.sizedRealTypes,
     d.sizedComplexTypes, d.encodedStringTypes}

\* C22: in every store a caller holds, every handle a root field was given,
\* every handle in a sized table, in encodedStringTypes, sumTypes,
\* productTypes or partialTypes is a node of the arena; and every entry of
\* sumTypes and productTypes maps the component list of its node, whose
\* members are nodes of the arena, to that node.
C22_TablesInArena ==
    pc = "open"
    => /\ \A f \in RootFields \cap DOMAIN data : data[f] \in Arena(data)
       /\ \A t \in KeyedTables(data) : \A k \in DOMAIN t : t[k] \in Arena(data)
       /\ \A k \in DOMAIN data.partialTypes : data.partialTypes[k] \in Arena(data)
       /\ \A t \in {data.sumTypes, data.productTypes} : \A key \in DOMAIN t :
             /\ t[key] \in Arena(data)
             /\ heap[t[key]].types = key
             /\ Range(key) \subseteq Arena(data)

=============================================================================
